---- MODULE Spec2Model ----
(***************************************************************************)
(* Medix Camp server (src/index.js): the registration lifecycle and its    *)
(* side effects on the camps, registrations, payments and users            *)
(* collections.  Every route handler is an async function; between two     *)
(* awaits its code runs without interruption, so one action of the model   *)
(* is one store operation together with the handler code that runs up to   *)
(* the next store operation (or up to the response).                       *)
(***************************************************************************)
EXTENDS Integers, Sequences, FiniteSets, Bags, TLC

\* ----------------------------------------------------------------- bounds
MaxInFlight == 2    \* request slots: handlers that may be between two awaits
MaxRegs == 2        \* registrations ever inserted
MaxCamps == 2       \* camps ever inserted by the store (generated _id)
MaxUsers == 3       \* user documents
MaxPayments == 2    \* payment documents

\* ------------------------------------------------------------- JS values
Undefined == "undefined"            \* a field the document or body lacks
Malformed == "not-an-objectid"      \* a string new ObjectId() rejects
FreshOid == "fresh-objectid"        \* what new ObjectId(undefined) generates
ClientOid == "x1"                   \* a well-formed id the store never generated
NullDoc == [null |-> TRUE]          \* findOne's null

\* A field that holds a number is <<n>>, and <<>> when the document or body
\* lacks it.
NoNumber == <<>>
Num(n) == <<n>>
Val(v) == v[1]

\* !v of JavaScript for the values request bodies carry here
Truthy(v) == v \notin {Undefined, ""}

\* a || b
OrElse(a, b) == IF Truthy(a) THEN a ELSE b

\* a || b where a is a number or undefined: 0 is falsy
NumOrElse(a, b) == IF a \notin {NoNumber, Num(0)} THEN a ELSE b

\* ids the store generates, in generation order
GenCampIds == <<"c1", "c2", "c3", "c4">>
GenRegIds == <<"r1", "r2", "r3", "r4">>

\* new ObjectId(x): throws on a malformed string, generates on undefined
ObjectIdThrows(x) == x = Malformed
ObjectId(x) == IF x = Undefined THEN FreshOid ELSE x

\* ---------------------------------------------------------------- emails
\* An email is a sequence of characters.
UpperCase == <<"C", "O", "P", "Q", "X">>
LowerCase == <<"c", "o", "p", "q", "x">>

LowerChar(ch) ==
    IF \E i \in DOMAIN UpperCase : UpperCase[i] = ch
    THEN LowerCase[CHOOSE i \in DOMAIN UpperCase : UpperCase[i] = ch]
    ELSE ch

\* the emails of the requests: p.c, P.C, pxc, q.c and the organizer's o.c
EmailP == <<"p", ".", "c">>
EmailPUpper == <<"P", ".", "C">>
EmailPx == <<"p", "x", "c">>
EmailQ == <<"q", ".", "c">>
EmailO == <<"o", ".", "c">>
EmailOUpper == <<"O", ".", "C">>

toLowerCase(s) == [i \in DOMAIN s |-> LowerChar(s[i])]

\* { $regex: `^${pattern}$`, $options: "i" } applied to the string s: the
\* pattern is not escaped, so "." in it matches any character.
RECURSIVE RegexMatch(_, _)
RegexMatch(pattern, s) ==
    IF pattern = <<>> THEN s = <<>>
    ELSE /\ s # <<>>
         /\ \/ Head(pattern) = "."
            \/ LowerChar(Head(pattern)) = LowerChar(Head(s))
         /\ RegexMatch(Tail(pattern), Tail(s))

\* ----------------------------------------------------------------- state
VARIABLES
    camps,      \* campsCollection: _id -> [title, participant_count]
    regs,       \* registrationsCollection: _id -> document
    payments,   \* paymentsCollection: a bag of documents (their _id left out)
    users,      \* usersCollection: documents in insertion (natural) order
    nextCamp,   \* how many camp ids the store has generated
    nextReg,    \* how many registration ids the store has generated
    reqs,       \* per slot: the handler running in it and its local variables
    hist,       \* the last responses sent, oldest first (at most depth)
    depth       \* how many responses hist remembers (fixed by Init); when
                \* negative, -depth responses, without the collections
                \* their requests saw

vars == <<camps, regs, payments, users, nextCamp, nextReg, reqs, hist, depth>>

stores == <<camps, regs, payments, users, nextCamp, nextReg>>

Slots == 1..MaxInFlight

Idle == [pc |-> "idle"]

\* the collections as a request sees them when it starts
Snapshot == [camps |-> camps, regs |-> regs, payments |-> payments, users |-> users]

NoSnapshot == [none |-> TRUE]

Pre == IF depth > 0 THEN Snapshot ELSE NoSnapshot

\* how many responses hist holds at most
Remembered == IF depth < 0 THEN 0 - depth ELSE depth

\* res.status(status).send(out): the response of the handler op called with
\* (id, body), whose request saw the collections as pre when it started
Sent(op, id, body, status, out, pre) ==
    LET e == [op |-> op, id |-> id, body |-> body, status |-> status,
              out |-> out, pre |-> pre]
        h == Append(hist, e)
    IN  IF depth = 0 THEN hist
        ELSE IF Len(h) > Remembered THEN Tail(h) ELSE h

\* the slot's handler sends its response and ends
Answer(r, status, out) ==
    /\ hist' = Sent(reqs[r].op, reqs[r].id, reqs[r].body, status, out, reqs[r].pre)
    /\ reqs' = [reqs EXCEPT ![r] = Idle]
    /\ UNCHANGED depth

\* a handler that responds in the step it starts in
AnswerAtOnce(op, id, body, status, out) ==
    /\ hist' = Sent(op, id, body, status, out, Pre)
    /\ UNCHANGED <<reqs, depth>>

\* the slot's handler awaits its next store operation
Await(r, next) ==
    /\ reqs' = [reqs EXCEPT ![r] = next]
    /\ UNCHANGED <<hist, depth>>

\* A store operation rejects in a handler that has no try/catch: the async
\* handler's promise rejects.  What follows depends on the express the
\* server runs on, which the source does not fix: express 4 ignores the
\* promise, nothing is sent and the request stays unanswered; express 5
\* passes the rejection to its default error handler, which answers 500.
UnhandledRejection(r, op, id, body) ==
    \/ /\ reqs' = [reqs EXCEPT ![r] = [pc |-> "unhandledRejection", op |-> op,
                                       id |-> id, body |-> body, loc |-> Undefined,
                                       pre |-> Pre]]
       /\ UNCHANGED <<hist, depth>>
    \/ /\ hist' = Sent(op, id, body, 500, [message |-> "Internal Server Error"],
                       IF reqs[r].pc = "idle" THEN Pre ELSE reqs[r].pre)
       /\ reqs' = [reqs EXCEPT ![r] = Idle]
       /\ UNCHANGED depth

InFlight(op) == Cardinality({r \in Slots : reqs[r].pc # "idle" /\ reqs[r].op = op})

\* the local variables of a handler that starts now
Started(op, id, body, pc, loc) ==
    [pc |-> pc, op |-> op, id |-> id, body |-> body, loc |-> loc, pre |-> Pre]

\* ------------------------------------------------------ store operations
\* positions of the user documents whose email is the given one
UsersWithEmail(email) == {i \in DOMAIN users : users[i].email = email}

\* the first (natural order) of the positions a filter matched, 0 when it
\* matched none: the document findOne returns and updateOne updates
FirstUser(matched) ==
    IF matched = {} THEN 0
    ELSE CHOOSE i \in matched : \A j \in matched : i <= j

\* usersCollection.findOne(filter), the filter having matched these positions
FindOneUser(matched) ==
    LET i == FirstUser(matched) IN IF i = 0 THEN NullDoc ELSE users[i]

\* $inc on a field: a missing field counts from 0
IncField(v, delta) == IF v = NoNumber THEN Num(delta) ELSE Num(Val(v) + delta)

\* an update that writes delta over the counter instead of adding it
IncParticipantCount_Overwrite(oid, delta) ==
    IF oid \in DOMAIN camps
    THEN [camps EXCEPT ![oid].participant_count = Num(delta)]
    ELSE camps

\* campsCollection.updateOne({ _id: oid }, { $inc: { participant_count: delta } })
IncParticipantCount(oid, delta) ==
    IF oid \in DOMAIN camps
    THEN [camps EXCEPT ![oid].participant_count = IncField(@, delta)]
    ELSE camps

\* matchedCount and modifiedCount of an update that changes every document it matches
UpdateResult(matched) ==
    [matchedCount |-> IF matched THEN 1 ELSE 0, modifiedCount |-> IF matched THEN 1 ELSE 0]

\* a function without the key k
Without(f, k) == [x \in DOMAIN f \ {k} |-> f[x]]

\* a function with the key k (new or not) mapped to v
With(f, k, v) == [x \in DOMAIN f \cup {k} |-> IF x = k THEN v ELSE f[x]]

\* ------------------------------------------------------------ POST /users
\* a user document that keeps the email as the request wrote it
NewUser_KeepCase(body) ==
    [email |-> body.email, role |-> "user", name |-> body.name]

\* lines 131-135: the email lower-cased, the role forced to user
NewUser(body) ==
    [email |-> toLowerCase(body.email), role |-> "user", name |-> body.name]

\* lines 131-140: normalise the email, findOne, 409 when the user exists
PostUsers_findOne(r, body) ==
    /\ reqs[r].pc = "idle"
    /\ LET user == NewUser(body)
           existingUser == FindOneUser(UsersWithEmail(user.email))
       IN  IF existingUser # NullDoc
           THEN AnswerAtOnce("POST /users", Undefined, body, 409,
                             [message |-> "User already exists"])
           ELSE Await(r, Started("POST /users", Undefined, body, "insertOne", user))
    /\ UNCHANGED stores

\* lines 141-142: insertOne, send the result
PostUsers_insertOne(r) ==
    /\ reqs[r].pc = "insertOne"
    /\ reqs[r].op = "POST /users"
    /\ users' = Append(users, reqs[r].loc)
    /\ Answer(r, 200, [insertedId |-> Len(users) + 1])
    /\ UNCHANGED <<camps, regs, payments, nextCamp, nextReg>>

\* line 137: the findOne rejects, outside any try
PostUsers_findOne_rejects(r, body) ==
    /\ reqs[r].pc = "idle"
    /\ UnhandledRejection(r, "POST /users", Undefined, body)
    /\ UNCHANGED stores

\* line 141: the insertOne rejects, outside any try
PostUsers_insertOne_rejects(r) ==
    /\ reqs[r].pc = "insertOne"
    /\ reqs[r].op = "POST /users"
    /\ UnhandledRejection(r, "POST /users", Undefined, reqs[r].body)
    /\ UNCHANGED stores

\* ---------------------------------------------------- PATCH /users/:email
\* lines 147-162: 400 without update data, else updateOne({ email }, $set)
PatchUsers_updateOne(r, email, body) ==
    /\ reqs[r].pc = "idle"
    /\ IF ~Truthy(body.name) /\ ~Truthy(body.photo) /\ ~Truthy(body.phone)
       THEN /\ AnswerAtOnce("PATCH /users/:email", email, body, 400,
                            [message |-> "No update data provided"])
            /\ UNCHANGED users
       ELSE LET i == FirstUser(UsersWithEmail(email))
                \* photo and phone are set like name; the model keeps name
                set(u) == IF Truthy(body.name) THEN [u EXCEPT !.name = body.name] ELSE u
            IN  /\ users' = IF i = 0 THEN users ELSE [users EXCEPT ![i] = set(@)]
                /\ Await(r, Started("PATCH /users/:email", email, body, "findOne",
                                    [modifiedCount |-> IF users' # users THEN 1 ELSE 0]))
    /\ UNCHANGED <<camps, regs, payments, nextCamp, nextReg>>

\* lines 163-175: findOne({ email }), 404 when there is none
PatchUsers_findOne(r) ==
    /\ reqs[r].pc = "findOne"
    /\ reqs[r].op = "PATCH /users/:email"
    /\ LET updatedUser == FindOneUser(UsersWithEmail(reqs[r].id))
       IN  IF updatedUser = NullDoc
           THEN Answer(r, 404, [message |-> "User not found"])
           ELSE Answer(r, 200, [user |-> updatedUser])
    /\ UNCHANGED stores

\* ------------------------------------------------------ POST /registrations
\* a registration document that keeps the two statuses the body carried
NewRegistration_AsSent(body) ==
    [campId |-> body.campId, camp_id |-> body.camp_id,
     participantEmail |-> body.participantEmail,
     campFees |-> body.campFees,
     paymentStatus |-> body.paymentStatus,
     confirmationStatus |-> body.confirmationStatus,
     transactionId |-> Undefined,
     paymentDate |-> Undefined]

\* lines 301-303: the body with the two statuses forced
NewRegistration(body) ==
    [campId |-> body.campId, camp_id |-> body.camp_id,
     participantEmail |-> body.participantEmail,
     campFees |-> body.campFees,
     paymentStatus |-> "unpaid",
     confirmationStatus |-> "pending",
     transactionId |-> Undefined,
     paymentDate |-> Undefined]

\* lines 301-313: force the two statuses, insertOne, then build the camp
\* filter: new ObjectId(registration.campId) throws into the catch (500)
Register_insertOne(r, body) ==
    /\ reqs[r].pc = "idle"
    /\ LET registration == NewRegistration(body)
           insertedId == GenRegIds[nextReg + 1]
       IN  /\ regs' = With(regs, insertedId, registration)
           /\ nextReg' = nextReg + 1
           /\ IF ObjectIdThrows(registration.campId)
              THEN AnswerAtOnce("POST /registrations", Undefined, body, 500,
                                [message |-> "Failed to register"])
              ELSE Await(r, Started("POST /registrations", Undefined, body, "updateOne",
                                    [insertedId |-> insertedId,
                                     campId |-> registration.campId]))
    /\ UNCHANGED <<camps, payments, users, nextCamp>>

\* lines 310-318: $inc participant_count by 1, send both results
Register_updateOne(r) ==
    /\ reqs[r].pc = "updateOne"
    /\ reqs[r].op = "POST /registrations"
    /\ LET oid == ObjectId(reqs[r].loc.campId)
       IN  /\ camps' = IncParticipantCount(oid, 1)
           /\ Answer(r, 200, [registrationId |-> reqs[r].loc.insertedId,
                              updatedCount |-> UpdateResult(oid \in DOMAIN camps).modifiedCount])
    /\ UNCHANGED <<regs, payments, users, nextCamp, nextReg>>

\* lines 310-313, 319-322: the $inc rejects; the catch answers 500.  rejected
\* names the operation that threw.
Register_updateOne_rejects(r) ==
    /\ reqs[r].pc = "updateOne"
    /\ reqs[r].op = "POST /registrations"
    /\ Answer(r, 500, [message |-> "Failed to register", rejected |-> "updateOne"])
    /\ UNCHANGED stores

\* ------------------------------------------------- PATCH /registrations/:id
\* an update that refuses to take a confirmed registration back
UpdateStatus_updateOne_Guarded(r, id, body) ==
    /\ reqs[r].pc = "idle"
    /\ LET oid == ObjectId(id)
           legal == oid \in DOMAIN regs => regs[oid].confirmationStatus # "confirmed"
       IN  /\ regs' = IF oid \in DOMAIN regs /\ legal
                      THEN [regs EXCEPT ![oid].confirmationStatus = body.confirmationStatus]
                      ELSE regs
           /\ AnswerAtOnce("PATCH /registrations/:id", id, body,
                           IF legal THEN 200 ELSE 400,
                           [matchedCount |-> IF oid \in DOMAIN regs THEN 1 ELSE 0,
                            modifiedCount |-> IF regs' # regs THEN 1 ELSE 0])
    /\ UNCHANGED <<camps, payments, users, nextCamp, nextReg>>

\* lines 339-346: updateOne $set confirmationStatus, send the result
UpdateStatus_updateOne(r, id, body) ==
    /\ reqs[r].pc = "idle"
    /\ LET oid == ObjectId(id)
       IN  /\ regs' = IF oid \in DOMAIN regs
                      THEN [regs EXCEPT ![oid].confirmationStatus = body.confirmationStatus]
                      ELSE regs
           /\ AnswerAtOnce("PATCH /registrations/:id", id, body, 200,
                           [matchedCount |-> IF oid \in DOMAIN regs THEN 1 ELSE 0,
                            modifiedCount |-> IF regs' # regs THEN 1 ELSE 0])
    /\ UNCHANGED <<camps, payments, users, nextCamp, nextReg>>

\* line 345: the updateOne rejects, outside any try
UpdateStatus_updateOne_rejects(r, id, body) ==
    /\ reqs[r].pc = "idle"
    /\ UnhandledRejection(r, "PATCH /registrations/:id", id, body)
    /\ UNCHANGED stores

\* ------------------------------------------------ DELETE /registrations/:id
\* lines 351-358: findOne, 404 when there is none
Delete_findOne(r, id) ==
    /\ reqs[r].pc = "idle"
    /\ LET oid == ObjectId(id)
       IN  IF oid \notin DOMAIN regs
           THEN AnswerAtOnce("DELETE /registrations/:id", id, Undefined, 404,
                             [message |-> "Registration not found"])
           ELSE Await(r, Started("DELETE /registrations/:id", id, Undefined, "deleteOne",
                                 regs[oid]))
    /\ UNCHANGED stores

\* a deleteOne that goes on to the decrement whatever deletedCount is
Delete_deleteOne_AlwaysDecrements(r) ==
    /\ reqs[r].pc = "deleteOne"
    /\ reqs[r].op = "DELETE /registrations/:id"
    /\ LET oid == ObjectId(reqs[r].id)
           campId == OrElse(reqs[r].loc.campId, reqs[r].loc.camp_id)
       IN  /\ regs' = IF oid \in DOMAIN regs THEN Without(regs, oid) ELSE regs
           /\ Await(r, [reqs[r] EXCEPT !.pc = "updateOne", !.loc = campId])
    /\ UNCHANGED <<camps, payments, users, nextCamp, nextReg>>

\* lines 360-367, 370-381: deleteOne; 400 when nothing was deleted; else the
\* camp filter from campId || camp_id, and a throw of new ObjectId is caught
\* by the inner try, after which the success response is sent
Delete_deleteOne(r) ==
    /\ reqs[r].pc = "deleteOne"
    /\ reqs[r].op = "DELETE /registrations/:id"
    /\ LET oid == ObjectId(reqs[r].id)
           deletedCount == IF oid \in DOMAIN regs THEN 1 ELSE 0
           campId == OrElse(reqs[r].loc.campId, reqs[r].loc.camp_id)
       IN  /\ regs' = IF oid \in DOMAIN regs THEN Without(regs, oid) ELSE regs
           /\ IF deletedCount > 0
              THEN IF ObjectIdThrows(campId)
                   THEN Answer(r, 200, [deletedCount |-> deletedCount,
                                        logged |-> "Failed to decrement participant count"])
                   ELSE Await(r, [reqs[r] EXCEPT !.pc = "updateOne", !.loc = campId])
              ELSE Answer(r, 400, [message |-> "Failed to delete registration"])
    /\ UNCHANGED <<camps, payments, users, nextCamp, nextReg>>

\* a delete that answers without the decrement
Delete_updateOne_NoDecrement(r) ==
    /\ reqs[r].pc = "updateOne"
    /\ reqs[r].op = "DELETE /registrations/:id"
    /\ Answer(r, 200, [deletedCount |-> 1])
    /\ UNCHANGED stores

\* lines 366-378: $inc participant_count by -1, send the success response
Delete_updateOne(r) ==
    /\ reqs[r].pc = "updateOne"
    /\ reqs[r].op = "DELETE /registrations/:id"
    /\ camps' = IncParticipantCount(ObjectId(reqs[r].loc), -1)
    /\ Answer(r, 200, [deletedCount |-> 1])
    /\ UNCHANGED <<regs, payments, users, nextCamp, nextReg>>

\* a decrement failure that reaches the outer catch of lines 382-385
Delete_updateOne_rejects_Escalates(r) ==
    /\ reqs[r].pc = "updateOne"
    /\ reqs[r].op = "DELETE /registrations/:id"
    /\ Answer(r, 500, [message |-> "Internal server error",
                       logged |-> "Failed to decrement participant count"])
    /\ UNCHANGED stores

\* lines 365-378: the $inc rejects; the inner catch logs it and the success
\* response is sent
Delete_updateOne_rejects(r) ==
    /\ reqs[r].pc = "updateOne"
    /\ reqs[r].op = "DELETE /registrations/:id"
    /\ Answer(r, 200, [deletedCount |-> 1,
                       logged |-> "Failed to decrement participant count"])
    /\ UNCHANGED stores

\* ----------------------------------------- PATCH /registrations/:id/payment
\* a check that forgets paymentDate
MissingPaymentInfo_NoDate(body) ==
    ~Truthy(body.transactionId) \/ ~Truthy(body.paymentStatus)

\* line 409
MissingPaymentInfo(body) ==
    ~Truthy(body.transactionId) \/ ~Truthy(body.paymentStatus) \/ ~Truthy(body.paymentDate)

\* lines 432-440
PaymentDoc(registration, body) ==
    [participantEmail |-> registration.participantEmail,
     amount |-> NumOrElse(registration.campFees, NumOrElse(body.amount, Num(0))),
     paymentStatus |-> body.paymentStatus,
     confirmationStatus |-> "confirmed",
     transactionId |-> body.transactionId,
     paymentDate |-> body.paymentDate]

\* lines 406-425: 400 on missing payment info, else updateOne $set on the
\* registration
RecordPayment_updateOne(r, id, body) ==
    /\ reqs[r].pc = "idle"
    /\ IF MissingPaymentInfo(body)
       THEN /\ AnswerAtOnce("PATCH /registrations/:id/payment", id, body, 400,
                            [message |-> "Missing required payment info"])
            /\ UNCHANGED regs
       ELSE LET oid == ObjectId(id)
            IN  /\ regs' = IF oid \in DOMAIN regs
                           THEN [regs EXCEPT ![oid].paymentStatus = body.paymentStatus,
                                             ![oid].transactionId = body.transactionId,
                                             ![oid].paymentDate = body.paymentDate,
                                             ![oid].confirmationStatus = "confirmed"]
                           ELSE regs
                /\ Await(r, Started("PATCH /registrations/:id/payment", id, body, "findOne",
                                    [registrationUpdate |->
                                        [matchedCount |-> IF oid \in DOMAIN regs THEN 1 ELSE 0,
                                         modifiedCount |-> IF regs' # regs THEN 1 ELSE 0]]))
    /\ UNCHANGED <<camps, payments, users, nextCamp, nextReg>>

\* a re-fetch that records the payment of a registration it did not find
RecordPayment_findOne_InsertsAnyway(r) ==
    /\ reqs[r].pc = "findOne"
    /\ reqs[r].op = "PATCH /registrations/:id/payment"
    /\ LET oid == ObjectId(reqs[r].id)
       IN  IF oid \notin DOMAIN regs
           THEN /\ payments' = payments (+) SetToBag({PaymentDoc(
                                   [participantEmail |-> Undefined, campFees |-> NoNumber],
                                   reqs[r].body)})
                /\ Answer(r, 404, [message |-> "Registration not found"])
           ELSE /\ Await(r, [reqs[r] EXCEPT !.pc = "insertOne",
                               !.loc = [registrationUpdate |-> @.registrationUpdate,
                                        registration |-> regs[oid]]])
                /\ UNCHANGED payments
    /\ UNCHANGED <<camps, regs, users, nextCamp, nextReg>>

\* lines 428-429: findOne the registration again, 404 when there is none
RecordPayment_findOne(r) ==
    /\ reqs[r].pc = "findOne"
    /\ reqs[r].op = "PATCH /registrations/:id/payment"
    /\ LET oid == ObjectId(reqs[r].id)
       IN  IF oid \notin DOMAIN regs
           THEN Answer(r, 404, [message |-> "Registration not found"])
           ELSE Await(r, [reqs[r] EXCEPT !.pc = "insertOne",
                            !.loc = [registrationUpdate |-> @.registrationUpdate,
                                     registration |-> regs[oid]]])
    /\ UNCHANGED stores

\* lines 432-441: insertOne the payment document
RecordPayment_insertOne(r) ==
    /\ reqs[r].pc = "insertOne"
    /\ reqs[r].op = "PATCH /registrations/:id/payment"
    /\ payments' = payments (+) SetToBag({PaymentDoc(reqs[r].loc.registration, reqs[r].body)})
    /\ Await(r, [reqs[r] EXCEPT !.pc = "roleUpdate"])
    /\ UNCHANGED <<camps, regs, users, nextCamp, nextReg>>

\* position of the first user whose email the regex built from
\* participantEmail matches (line 445), 0 when there is none
MatchingUser(participantEmail) ==
    FirstUser({i \in DOMAIN users : RegexMatch(participantEmail, users[i].email)})

\* an updateOne with upsert: a user is inserted when none matches
PromoteToParticipant_Upsert(participantEmail) ==
    LET i == MatchingUser(participantEmail)
    IN  IF i = 0
        THEN Append(users, [email |-> participantEmail, role |-> "participant",
                            name |-> Undefined])
        ELSE [users EXCEPT ![i].role = "participant"]

\* lines 444-447: updateOne, $set role participant on the first match
PromoteToParticipant(participantEmail) ==
    LET i == MatchingUser(participantEmail)
    IN  IF i = 0 THEN users ELSE [users EXCEPT ![i].role = "participant"]

\* lines 444-454: the role update; send the three results
RecordPayment_roleUpdate(r) ==
    /\ reqs[r].pc = "roleUpdate"
    /\ reqs[r].op = "PATCH /registrations/:id/payment"
    /\ LET i == MatchingUser(reqs[r].loc.registration.participantEmail)
       IN  /\ users' = PromoteToParticipant(reqs[r].loc.registration.participantEmail)
           /\ Answer(r, 200, [registrationUpdate |-> reqs[r].loc.registrationUpdate,
                              paymentInsert |-> 1,
                              roleUpdate |->
                                  [matchedCount |-> IF i = 0 THEN 0 ELSE 1,
                                   modifiedCount |-> IF users' # users THEN 1 ELSE 0]])
    /\ UNCHANGED <<camps, regs, payments, nextCamp, nextReg>>

\* lines 441, 455-458: the payment insertOne rejects; the catch answers 500
RecordPayment_insertOne_rejects(r) ==
    /\ reqs[r].pc = "insertOne"
    /\ reqs[r].op = "PATCH /registrations/:id/payment"
    /\ Answer(r, 500, [message |-> "Payment update failed", rejected |-> "insertOne"])
    /\ UNCHANGED stores

\* lines 444-447, 455-458: the role updateOne rejects; the same catch
\* answers 500
RecordPayment_roleUpdate_rejects(r) ==
    /\ reqs[r].pc = "roleUpdate"
    /\ reqs[r].op = "PATCH /registrations/:id/payment"
    /\ Answer(r, 500, [message |-> "Payment update failed", rejected |-> "roleUpdate"])
    /\ UNCHANGED stores

\* ----------------------------------------------------------- POST /payments
\* an insert that leaves the new document alone in the collection
PostPayments_insertOne_Replace(r, payment) ==
    /\ reqs[r].pc = "idle"
    /\ payments' = SetToBag({payment})
    /\ AnswerAtOnce("POST /payments", Undefined, payment, 200, [insertedCount |-> 1])
    /\ UNCHANGED <<camps, regs, users, nextCamp, nextReg>>

\* lines 480-482: insertOne the body as it is
PostPayments_insertOne(r, payment) ==
    /\ reqs[r].pc = "idle"
    /\ payments' = payments (+) SetToBag({payment})
    /\ AnswerAtOnce("POST /payments", Undefined, payment, 200, [insertedCount |-> 1])
    /\ UNCHANGED <<camps, regs, users, nextCamp, nextReg>>

\* -------------------------------------------------------------- camp routes
\* lines 94-101: verifyOrganizer lets the request through when the user
\* stored under the caller's lower-cased email has role organizer
IsOrganizer(caller) ==
    LET user == FindOneUser(UsersWithEmail(toLowerCase(caller)))
    IN  user # NullDoc /\ user.role = "organizer"

Forbidden(op, id, body) ==
    AnswerAtOnce(op, id, body, 403, [message |-> "Forbidden: Organizer only"])

\* line 221
MissingCampFields(camp) ==
    \/ ~Truthy(camp.title) \/ ~Truthy(camp.date) \/ ~Truthy(camp.time)
    \/ Len(camp.images) = 0

\* a camp document that keeps the participant_count the body carried
NewCamp_AsSent(body) ==
    [title |-> body.title, participant_count |-> body.participant_count]

\* lines 225-226: the body with participant_count set to 0
NewCamp(body) ==
    [title |-> body.title, participant_count |-> Num(0)]

\* lines 94-101, 219-226: verifyOrganizer, then 400 on a missing field
PostCamps_verifyOrganizer(r, caller, body) ==
    /\ reqs[r].pc = "idle"
    /\ IF ~IsOrganizer(caller)
       THEN Forbidden("POST /camps", Undefined, body)
       ELSE IF MissingCampFields(body)
       THEN AnswerAtOnce("POST /camps", Undefined, body, 400,
                         [message |-> "Missing required fields"])
       ELSE Await(r, Started("POST /camps", Undefined, body, "insertOne", NewCamp(body)))
    /\ UNCHANGED stores

\* lines 229-230: insertOne the camp
PostCamps_insertOne(r) ==
    /\ reqs[r].pc = "insertOne"
    /\ reqs[r].op = "POST /camps"
    /\ camps' = With(camps, GenCampIds[nextCamp + 1], reqs[r].loc)
    /\ nextCamp' = nextCamp + 1
    /\ Answer(r, 200, [insertedId |-> GenCampIds[nextCamp + 1]])
    /\ UNCHANGED <<regs, payments, users, nextReg>>

\* lines 94-101, 238-246: verifyOrganizer
PutCamps_verifyOrganizer(r, caller, id, body) ==
    /\ reqs[r].pc = "idle"
    /\ IF ~IsOrganizer(caller)
       THEN Forbidden("PUT /camps/:id", id, body)
       ELSE Await(r, Started("PUT /camps/:id", id, body, "updateOne", Undefined))
    /\ UNCHANGED stores

\* $set of the fields the body carries
SetCampFields(camp, body) ==
    [title |-> IF body.title = Undefined THEN camp.title ELSE body.title,
     participant_count |-> IF body.participant_count = NoNumber
                           THEN camp.participant_count ELSE body.participant_count]

\* lines 248-252: updateOne with upsert; 404 when modifiedCount is 0, which
\* is also what an upsert that inserted reports
PutCamps_updateOne(r) ==
    /\ reqs[r].pc = "updateOne"
    /\ reqs[r].op = "PUT /camps/:id"
    /\ LET oid == ObjectId(reqs[r].id)
           empty == [title |-> Undefined, participant_count |-> NoNumber]
           old == IF oid \in DOMAIN camps THEN camps[oid] ELSE empty
           new == SetCampFields(old, reqs[r].body)
           modifiedCount == IF oid \in DOMAIN camps /\ new # old THEN 1 ELSE 0
       IN  /\ camps' = With(camps, oid, new)
           /\ IF modifiedCount = 0
              THEN Answer(r, 404, [message |-> "Camp not found or no changes made"])
              ELSE Answer(r, 200, [modifiedCount |-> modifiedCount])
    /\ UNCHANGED <<regs, payments, users, nextCamp, nextReg>>

\* lines 94-101, 260-261: verifyOrganizer
DeleteCamps_verifyOrganizer(r, caller, id) ==
    /\ reqs[r].pc = "idle"
    /\ IF ~IsOrganizer(caller)
       THEN Forbidden("DELETE /camps/:id", id, Undefined)
       ELSE Await(r, Started("DELETE /camps/:id", id, Undefined, "deleteOne", Undefined))
    /\ UNCHANGED stores

\* lines 263-266: deleteOne the camp, 404 when nothing was deleted
DeleteCamps_deleteOne(r) ==
    /\ reqs[r].pc = "deleteOne"
    /\ reqs[r].op = "DELETE /camps/:id"
    /\ LET oid == ObjectId(reqs[r].id)
       IN  IF oid \in DOMAIN camps
           THEN /\ camps' = Without(camps, oid)
                /\ Await(r, [reqs[r] EXCEPT !.pc = "deleteMany"])
           ELSE /\ UNCHANGED camps
                /\ Answer(r, 404, [message |-> "Camp not found"])
    /\ UNCHANGED <<regs, payments, users, nextCamp, nextReg>>

\* lines 268-269: deleteMany({ camp_id: id }) on the registrations
DeleteCamps_deleteMany(r) ==
    /\ reqs[r].pc = "deleteMany"
    /\ reqs[r].op = "DELETE /camps/:id"
    /\ regs' = [x \in {y \in DOMAIN regs : regs[y].camp_id # reqs[r].id} |-> regs[x]]
    /\ Answer(r, 200, [message |-> "Camp and associated registrations deleted successfully"])
    /\ UNCHANGED <<camps, payments, users, nextCamp, nextReg>>

\* ------------------------------------------------------------------ requests
\* registration ids a client can know: those the store has generated
KnownRegIds == {GenRegIds[i] : i \in 1..nextReg}

\* camp ids a client can know: those the store has generated
KnownCampIds == {GenCampIds[i] : i \in 1..nextCamp}

RegisterBody(campId, camp_id, email) ==
    [campId |-> campId, camp_id |-> camp_id, participantEmail |-> email,
     campFees |-> NoNumber, paymentStatus |-> Undefined,
     confirmationStatus |-> Undefined]

PaymentBody(transactionId, paymentStatus, paymentDate) ==
    [transactionId |-> transactionId, paymentStatus |-> paymentStatus,
     paymentDate |-> paymentDate, amount |-> NoNumber]

CampBody(title, images) ==
    [title |-> title, date |-> "2024-01-01", time |-> "10:00", images |-> images,
     participant_count |-> NoNumber]

\* The clients send only so many requests that insert: the collections
\* stay within the bounds.
RoomForUser(email) ==
    \/ \E i \in DOMAIN users : users[i].email = toLowerCase(email)
    \/ Len(users) + InFlight("POST /users") < MaxUsers

RoomForPayment ==
    BagCardinality(payments) + InFlight("PATCH /registrations/:id/payment") < MaxPayments

\* The steps of each route, for slot r, with the requests drawn from in.
PostUsersSteps(r, in) ==
    \/ \E email \in in.userEmails :
          /\ RoomForUser(email)
          /\ PostUsers_findOne(r, [email |-> email, name |-> Undefined])
    \/ PostUsers_insertOne(r)

PatchUsersSteps(r, in) ==
    \/ \E email \in in.userEmails, name \in in.names :
          PatchUsers_updateOne(r, email, [name |-> name, photo |-> Undefined,
                                          phone |-> Undefined])
    \/ PatchUsers_findOne(r)

RegisterSteps(r, in) ==
    \/ \E campId \in KnownCampIds \cup in.campIds, camp_id \in in.camp_ids,
          email \in in.participantEmails :
          /\ nextReg < MaxRegs
          /\ Register_insertOne(r, RegisterBody(campId, camp_id, email))
    \/ Register_updateOne(r)

\* POST /registrations with the bodies of in.registerBodies
RegisterBodySteps(r, in) ==
    \/ \E body \in in.registerBodies :
          /\ nextReg < MaxRegs
          /\ Register_insertOne(r, body)
    \/ Register_updateOne(r)

DeleteSteps(r, in) ==
    \/ \E id \in KnownRegIds \cup in.regIds : Delete_findOne(r, id)
    \/ Delete_deleteOne(r)
    \/ Delete_updateOne(r)

UpdateStatusSteps(r, in) ==
    \E id \in KnownRegIds \cup in.regIds, status \in in.confirmationStatuses :
        UpdateStatus_updateOne(r, id, [confirmationStatus |-> status])

RecordPaymentSteps(r, in) ==
    \/ \E id \in KnownRegIds \cup in.regIds, body \in in.paymentBodies :
          /\ MissingPaymentInfo(body) \/ RoomForPayment
          /\ RecordPayment_updateOne(r, id, body)
    \/ RecordPayment_findOne(r)
    \/ RecordPayment_insertOne(r)
    \/ RecordPayment_roleUpdate(r)

PostPaymentsSteps(r, in) ==
    \E payment \in in.payments :
        /\ RoomForPayment
        /\ PostPayments_insertOne(r, payment)

PostCampsSteps(r, in) ==
    \/ \E caller \in in.callers, body \in in.campBodies :
          /\ nextCamp + InFlight("POST /camps") < MaxCamps
          /\ PostCamps_verifyOrganizer(r, caller, body)
    \/ PostCamps_insertOne(r)

PutCampsSteps(r, in) ==
    \/ \E caller \in in.callers, id \in KnownCampIds \cup in.putCampIds,
          body \in in.putBodies :
          PutCamps_verifyOrganizer(r, caller, id, body)
    \/ PutCamps_updateOne(r)

DeleteCampsSteps(r, in) ==
    \/ \E caller \in in.callers, id \in KnownCampIds :
          DeleteCamps_verifyOrganizer(r, caller, id)
    \/ DeleteCamps_deleteOne(r)
    \/ DeleteCamps_deleteMany(r)

\* a store operation a handler awaits rejects
StoreFailureSteps(r) ==
    \/ Register_updateOne_rejects(r)
    \/ Delete_updateOne_rejects(r)
    \/ RecordPayment_insertOne_rejects(r)
    \/ RecordPayment_roleUpdate_rejects(r)

\* a store operation rejects in POST /users or PATCH /registrations/:id
UnhandledRejectionSteps(r, in) ==
    \/ \E email \in in.userEmails :
          PostUsers_findOne_rejects(r, [email |-> email, name |-> Undefined])
    \/ PostUsers_insertOne_rejects(r)
    \/ \E id \in KnownRegIds \cup in.regIds, status \in in.confirmationStatuses :
          UpdateStatus_updateOne_rejects(r, id, [confirmationStatus |-> status])

\* The collections when the server starts: one camp, already given its
\* participant_count of 0 (lines 60-63), one organizer, nothing else.
InitStores ==
    /\ camps = [c \in {GenCampIds[1]} |-> [title |-> "t1", participant_count |-> Num(0)]]
    /\ nextCamp = 1
    /\ regs = [x \in {} |-> Undefined]
    /\ nextReg = 0
    /\ payments = EmptyBag
    /\ users = <<[email |-> EmailO, role |-> "organizer", name |-> Undefined]>>
    /\ reqs = [r \in Slots |-> Idle]
    /\ hist = <<>>

\* ------------------------------------------------ concurrent specification
\* The registration lifecycle with up to MaxInFlight handlers interleaved at
\* their store operations.
Inputs ==
    [userEmails |-> {EmailPx},
     names |-> {"n1"},
     campIds |-> {},
     camp_ids |-> {Undefined},
     participantEmails |-> {EmailP},
     regIds |-> {},
     confirmationStatuses |-> {"confirmed", "cancelled"},
     paymentBodies |-> {PaymentBody("T1", s, "2024-01-02") : s \in {"paid", "failed"}},
     payments |-> {[participantEmail |-> EmailQ, amount |-> Num(0),
                    paymentStatus |-> "paid", confirmationStatus |-> "confirmed",
                    transactionId |-> "T9", paymentDate |-> "2024-01-02"]}]

Init == InitStores /\ depth = 0

Next ==
    \E r \in Slots :
        \/ PostUsersSteps(r, Inputs)
        \/ PatchUsersSteps(r, Inputs)
        \/ RegisterSteps(r, Inputs)
        \/ DeleteSteps(r, Inputs)
        \/ UpdateStatusSteps(r, Inputs)
        \/ RecordPaymentSteps(r, Inputs)
        \/ PostPaymentsSteps(r, Inputs)

Spec == Init /\ [][Next]_vars

\* ---------------------------------------------------- serial specification
\* One request at a time: every handler runs to its response before the
\* next request starts, and the last response is remembered.
InputsSeq ==
    [userEmails |-> {EmailP, EmailPUpper},
     campIds |-> {},
     camp_ids |-> {Undefined},
     participantEmails |-> {EmailPUpper},
     regIds |-> {ClientOid},
     paymentBodies |-> {PaymentBody(t, s, d) : t \in {"T1", Undefined},
                            s \in {"paid", "failed", Undefined},
                            d \in {"2024-01-02", Undefined}}]

InitSeq == InitStores /\ depth = 1

NextSeq ==
    \E r \in {1} :
        \/ PostUsersSteps(r, InputsSeq)
        \/ RegisterSteps(r, InputsSeq)
        \/ DeleteSteps(r, InputsSeq)
        \/ RecordPaymentSteps(r, InputsSeq)

SpecSeq == InitSeq /\ [][NextSeq]_vars

\* ------------------------------------------- register and delete, concurrent
\* Only POST /registrations and DELETE /registrations/:id, every body naming
\* the camp in campId, interleaved at their store operations.
InputsRegDel ==
    [campIds |-> {},
     camp_ids |-> {Undefined},
     participantEmails |-> {EmailP, EmailQ},
     regIds |-> {}]

NextRegDel ==
    \E r \in Slots :
        \/ RegisterSteps(r, InputsRegDel)
        \/ DeleteSteps(r, InputsRegDel)

SpecRegDel == Init /\ [][NextRegDel]_vars

\* ------------------------------------------------- camps and registrations
\* The camp routes, called by the organizer, with register and delete.
InputsCamps ==
    [callers |-> {EmailO},
     campBodies |-> {[title |-> "t2", date |-> "2024-01-01", time |-> "10:00",
                      images |-> <<"x.png">>, participant_count |-> NoNumber]},
     putCampIds |-> {},
     putBodies |-> {[title |-> "t2", participant_count |-> NoNumber],
                    [title |-> Undefined, participant_count |-> Num(1)]},
     campIds |-> {},
     camp_ids |-> {Undefined},
     participantEmails |-> {EmailP},
     regIds |-> {}]

NextCamps ==
    \E r \in Slots :
        \/ PostCampsSteps(r, InputsCamps)
        \/ PutCampsSteps(r, InputsCamps)
        \/ DeleteCampsSteps(r, InputsCamps)
        \/ RegisterSteps(r, InputsCamps)
        \/ DeleteSteps(r, InputsCamps)

SpecCamps == Init /\ [][NextCamps]_vars

\* ------------------------------------------------- pairs of requests, serial
\* One request at a time, the last two responses remembered: what a request
\* does after the one before it.
InputsPair ==
    [campIds |-> {ClientOid},
     camp_ids |-> {Undefined, GenCampIds[1]},
     participantEmails |-> {EmailP},
     regIds |-> {},
     paymentBodies |-> {PaymentBody(t, "paid", "2024-01-02") : t \in {"T1", "T2"}}]

InitPair == InitStores /\ depth = 2

NextPair ==
    \E r \in {1} :
        \/ RegisterSteps(r, InputsPair)
        \/ DeleteSteps(r, InputsPair)
        \/ RecordPaymentSteps(r, InputsPair)

SpecPair == InitPair /\ [][NextPair]_vars

\* ------------------------------------------- what the bodies carry, serial
\* One request at a time, the last response remembered: register bodies that
\* carry statuses of their own and a fee, payment bodies that carry an amount.
InputsBodies ==
    [registerBodies |->
        {[campId |-> c, camp_id |-> Undefined, participantEmail |-> EmailP,
          campFees |-> f, paymentStatus |-> st[1], confirmationStatus |-> st[2]] :
            c \in {GenCampIds[1], ClientOid, Undefined},
            f \in {NoNumber, Num(0), Num(30)},
            st \in {<<Undefined, Undefined>>, <<"paid", "confirmed">>}},
     regIds |-> {},
     paymentBodies |->
        {[transactionId |-> "T1", paymentStatus |-> "paid",
          paymentDate |-> "2024-01-02", amount |-> a] :
            a \in {NoNumber, Num(0), Num(50)}}]

NextBodies ==
    \E r \in {1} :
        \/ RegisterBodySteps(r, InputsBodies)
        \/ RecordPaymentSteps(r, InputsBodies)

SpecBodies == InitSeq /\ [][NextBodies]_vars

\* ------------------------------------------------- registers, concurrent
\* Only POST /registrations, up to MaxInFlight of them interleaved at their
\* store operations.
InputsRegisters ==
    [campIds |-> {ClientOid},
     camp_ids |-> {Undefined},
     participantEmails |-> {EmailP, EmailQ, EmailPx}]

NextRegisters == \E r \in Slots : RegisterSteps(r, InputsRegisters)

SpecRegisters == Init /\ [][NextRegisters]_vars

\* ------------------------------------------------ camps and registers, serial
\* One request at a time, the last response remembered: the organizer
\* creates and deletes camps, participants register.
InputsCampsSeq ==
    [callers |-> {EmailO},
     campBodies |->
        {[title |-> f[1], date |-> f[2], time |-> f[3], images |-> f[4],
          participant_count |-> f[5]] :
            f \in {<<"t2", "2024-01-01", "10:00", <<"x.png">>, NoNumber>>,
                   <<"t2", "2024-01-01", "10:00", <<"x.png">>, Num(5)>>,
                   <<"", "2024-01-01", "10:00", <<"x.png">>, NoNumber>>,
                   <<"t2", "", "10:00", <<"x.png">>, NoNumber>>,
                   <<"t2", "2024-01-01", "", <<"x.png">>, Num(5)>>,
                   <<"t2", "2024-01-01", "10:00", <<>>, NoNumber>>}},
     campIds |-> {},
     camp_ids |-> {Undefined, GenCampIds[1]},
     participantEmails |-> {EmailP}]

NextCampsSeq ==
    \E r \in {1} :
        \/ PostCampsSteps(r, InputsCampsSeq)
        \/ DeleteCampsSteps(r, InputsCampsSeq)
        \/ RegisterSteps(r, InputsCampsSeq)

SpecCampsSeq == InitSeq /\ [][NextCampsSeq]_vars

\* ------------------------------------------------------ every route, serial
\* One request at a time, to every route that writes.
InputsRoutes ==
    [userEmails |-> {EmailP},
     names |-> {"n1"},
     callers |-> {EmailO},
     campBodies |-> {CampBody("t2", <<"x.png">>)},
     putCampIds |-> {},
     putBodies |-> {[title |-> "t2", participant_count |-> NoNumber]},
     registerBodies |-> {RegisterBody(GenCampIds[1], Undefined, EmailP)},
     regIds |-> {},
     confirmationStatuses |-> {"cancelled"},
     paymentBodies |-> {PaymentBody("T1", "paid", "2024-01-02")},
     payments |-> {[participantEmail |-> EmailQ, amount |-> Num(0),
                    paymentStatus |-> "paid", confirmationStatus |-> "confirmed",
                    transactionId |-> "T9", paymentDate |-> "2024-01-02"]}]

NextRoutes ==
    \E r \in {1} :
        \/ PostUsersSteps(r, InputsRoutes)
        \/ PatchUsersSteps(r, InputsRoutes)
        \/ PostCampsSteps(r, InputsRoutes)
        \/ PutCampsSteps(r, InputsRoutes)
        \/ DeleteCampsSteps(r, InputsRoutes)
        \/ RegisterBodySteps(r, InputsRoutes)
        \/ UpdateStatusSteps(r, InputsRoutes)
        \/ DeleteSteps(r, InputsRoutes)
        \/ RecordPaymentSteps(r, InputsRoutes)
        \/ PostPaymentsSteps(r, InputsRoutes)

SpecRoutes == Init /\ [][NextRoutes]_vars

\* ------------------------------------------------- users and payments, serial
\* One request at a time, the last response remembered: users are created,
\* participants register under a user's email, in any case, and pay.
InputsUsers ==
    [userEmails |-> {EmailP, EmailPx},
     campIds |-> {},
     camp_ids |-> {Undefined},
     participantEmails |-> {EmailP, EmailOUpper},
     regIds |-> {},
     paymentBodies |-> {PaymentBody("T1", "paid", "2024-01-02")}]

NextUsers ==
    \E r \in {1} :
        \/ PostUsersSteps(r, InputsUsers)
        \/ RegisterSteps(r, InputsUsers)
        \/ RecordPaymentSteps(r, InputsUsers)

SpecUsers == InitSeq /\ [][NextUsers]_vars

\* ------------------------------------------------- store failures, serial
\* One request at a time, the last response remembered; the store may
\* reject the counter updates, the payment insert and the role update.
InputsFail ==
    [campIds |-> {Malformed},
     camp_ids |-> {Undefined},
     participantEmails |-> {EmailP},
     regIds |-> {ClientOid},
     paymentBodies |-> {PaymentBody("T1", "paid", "2024-01-02")}]

NextFail ==
    \E r \in {1} :
        \/ RegisterSteps(r, InputsFail)
        \/ DeleteSteps(r, InputsFail)
        \/ RecordPaymentSteps(r, InputsFail)
        \/ StoreFailureSteps(r)

SpecFail == InitSeq /\ [][NextFail]_vars

\* -------------------------------------- store failures outside try, concurrent
\* POST /users, POST /registrations and PATCH /registrations/:id, with the
\* store free to reject the operations the first and the last await, and
\* register's increment.
InputsRejections ==
    [userEmails |-> {EmailP, EmailQ},
     campIds |-> {},
     camp_ids |-> {Undefined},
     participantEmails |-> {EmailP},
     regIds |-> {},
     confirmationStatuses |-> {"confirmed", "cancelled"}]

NextRejections ==
    \E r \in Slots :
        \/ PostUsersSteps(r, InputsRejections)
        \/ RegisterSteps(r, InputsRejections)
        \/ Register_updateOne_rejects(r)
        \/ UpdateStatusSteps(r, InputsRejections)
        \/ UnhandledRejectionSteps(r, InputsRejections)

SpecRejections == Init /\ [][NextRejections]_vars

\* ------------------------------------------------ registration statuses, serial
\* One request at a time, the last response remembered: a user is created,
\* registers, pays, and the confirmationStatus is set to any value.
InputsStatus ==
    [userEmails |-> {EmailP},
     campIds |-> {},
     camp_ids |-> {Undefined},
     participantEmails |-> {EmailP},
     regIds |-> {},
     confirmationStatuses |-> {"pending", "confirmed", "cancelled", "approved"},
     paymentBodies |-> {PaymentBody("T1", "paid", "2024-01-02")}]

NextStatus ==
    \E r \in {1} :
        \/ PostUsersSteps(r, InputsStatus)
        \/ RegisterSteps(r, InputsStatus)
        \/ UpdateStatusSteps(r, InputsStatus)
        \/ RecordPaymentSteps(r, InputsStatus)

SpecStatus == InitSeq /\ [][NextStatus]_vars

\* ------------------------------------------- payments and deletes, concurrent
\* Registers and recordPayments arriving in the first slot, interleaved at
\* their store operations with registration deletes in every slot; the last
\* response is remembered.
InputsVanish ==
    [campIds |-> {},
     camp_ids |-> {Undefined},
     participantEmails |-> {EmailO},
     regIds |-> {ClientOid},
     paymentBodies |-> {PaymentBody("T1", "paid", "2024-01-02")}]

NextVanish ==
    \/ RegisterSteps(1, InputsVanish)
    \/ RecordPaymentSteps(1, InputsVanish)
    \/ \E r \in Slots : DeleteSteps(r, InputsVanish)

InitVanish == InitStores /\ depth = -1

SpecVanish == InitVanish /\ [][NextVanish]_vars

\* ------------------------------------------------------- camp updates, serial
\* One request at a time, the last response remembered: camps are created,
\* updated and deleted, by the organizer and by another caller, the update
\* also under an id no camp has.
InputsPut ==
    [callers |-> {EmailO, EmailP},
     campBodies |-> {CampBody("t2", <<"x.png">>)},
     putCampIds |-> {ClientOid},
     putBodies |-> {[title |-> "t1", participant_count |-> NoNumber],
                    [title |-> "t2", participant_count |-> NoNumber],
                    [title |-> Undefined, participant_count |-> Num(1)]}]

NextPut ==
    \E r \in {1} :
        \/ PostCampsSteps(r, InputsPut)
        \/ PutCampsSteps(r, InputsPut)
        \/ DeleteCampsSteps(r, InputsPut)

SpecPut == InitSeq /\ [][NextPut]_vars

\* ------------------------------------------------------------------ claims
Quiescent == \A r \in Slots : reqs[r].pc = "idle"

\* the camp a registration refers to, as registration delete reads it (line 363)
CampOf(registration) == OrElse(registration.campId, registration.camp_id)

Referencing(c) == {x \in DOMAIN regs : CampOf(regs[x]) = c}

\* C1: no camp's participant_count is negative, in any state that register
\* and delete requests, interleaved at their store operations, can reach
\* from a camp with participant_count 0.
C1_CountNeverNegative ==
    \A c \in DOMAIN camps :
        camps[c].participant_count # NoNumber => Val(camps[c].participant_count) >= 0

\* C4: whenever no request is in progress, each camp's participant_count is
\* the number of registrations that refer to the camp.
C4_CountIsRegistrations ==
    Quiescent =>
        \A c \in DOMAIN camps :
            camps[c].participant_count = Num(Cardinality(Referencing(c)))

\* the response sent last, and the one before it (SpecPair)
Last == hist[Len(hist)]
Before == hist[Len(hist) - 1]

RegisterOp == "POST /registrations"
DeleteOp == "DELETE /registrations/:id"
RecordPaymentOp == "PATCH /registrations/:id/payment"
PostUsersOp == "POST /users"

\* A register naming an existing camp in campId has answered, and the next
\* request, the delete of the registration it returned, has answered too.
RegisterThenDelete ==
    /\ Quiescent
    /\ Len(hist) = 2
    /\ Before.op = RegisterOp
    /\ Before.status = 200
    /\ Before.body.campId \in DOMAIN Before.pre.camps
    /\ Last.op = DeleteOp
    /\ Last.id = Before.out.registrationId

\* C2: after a register for an existing camp followed by the delete of the
\* registration it returned, both run to their responses with no request in
\* between, the camp's participant_count is what it was before the register.
C2_RegisterThenDeleteRestoresCount ==
    RegisterThenDelete =>
        LET c == Before.body.campId
        IN  /\ Last.status = 200
            /\ c \in DOMAIN camps
            /\ camps[c].participant_count = Before.pre.camps[c].participant_count

C2_Witness ==
    /\ RegisterThenDelete
    /\ Last.status = 200
    /\ Last.id \notin DOMAIN regs

\* how many payment documents carry the transaction reference t
PaymentsWith(t) ==
    BagCardinality([d \in {x \in BagToSet(payments) : x.transactionId = t} |-> payments[d]])

\* C3: after recordPayment has answered twice in a row for the same
\* registration with the same transaction reference, exactly one payment
\* document carries that transaction reference.
C3_RecordPaymentIdempotent ==
    ( /\ Quiescent
      /\ Len(hist) = 2
      /\ Before.op = RecordPaymentOp /\ Before.status = 200
      /\ Last.op = RecordPaymentOp /\ Last.status = 200
      /\ Last.id = Before.id
      /\ Last.body.transactionId = Before.body.transactionId )
    => PaymentsWith(Last.body.transactionId) = 1

\* a payment document recorded for the registration: same participant email
\* and transaction reference
RecordedFor(payment, registration) ==
    /\ payment.participantEmail = registration.participantEmail
    /\ payment.transactionId = registration.transactionId

\* C5: a registration is confirmed only if a payment document recorded for it
\* exists.
C5_ConfirmedOnlyWithPayment ==
    \A x \in DOMAIN regs :
        regs[x].confirmationStatus = "confirmed" =>
            \E d \in BagToSet(payments) : RecordedFor(d, regs[x])

\* C6: every registration a payment document was recorded for has
\* paymentStatus paid.
C6_PaymentImpliesPaid ==
    \A d \in BagToSet(payments) : \A x \in DOMAIN regs :
        RecordedFor(d, regs[x]) => regs[x].paymentStatus = "paid"

\* C7: a user has role participant only if a payment document exists whose
\* participantEmail is the user's email, compared without case.
C7_ParticipantOnlyWithPayment ==
    \A i \in DOMAIN users :
        users[i].role = "participant" =>
            \E d \in BagToSet(payments) :
                toLowerCase(d.participantEmail) = toLowerCase(users[i].email)

\* The request answered last was a recordPayment that lacks one of
\* transactionId, paymentStatus and paymentDate.
RecordPaymentLacksField ==
    /\ Quiescent
    /\ Len(hist) = 1
    /\ Last.op = RecordPaymentOp
    /\ \/ Last.body.transactionId = Undefined
       \/ Last.body.paymentStatus = Undefined
       \/ Last.body.paymentDate = Undefined

\* C8: a recordPayment that lacks one of the three fields is answered 400 and
\* leaves the registrations, the payments and the users as they were.
C8_MissingInfoRejected ==
    RecordPaymentLacksField =>
        /\ Last.status = 400
        /\ regs = Last.pre.regs
        /\ payments = Last.pre.payments
        /\ users = Last.pre.users

\* the rejected request named an existing registration and lacked only the date
C8_Witness ==
    /\ RecordPaymentLacksField
    /\ Last.id \in DOMAIN regs
    /\ Last.body.transactionId # Undefined
    /\ Last.body.paymentStatus # Undefined
    /\ Last.body.paymentDate = Undefined
    /\ Last.status = 400

\* The request answered last was a create-user whose email, compared without
\* case, was the email of a user stored when the request started.
CreateExistingUser ==
    /\ Quiescent
    /\ Len(hist) = 1
    /\ Last.op = PostUsersOp
    /\ \E i \in DOMAIN Last.pre.users :
          toLowerCase(Last.pre.users[i].email) = toLowerCase(Last.body.email)

\* C9: such a create-user is answered 409 and inserts nothing: the users
\* collection is unchanged and holds one document for that email.
C9_DuplicateUserConflict ==
    CreateExistingUser =>
        /\ Last.status = 409
        /\ users = Last.pre.users
        /\ Cardinality({i \in DOMAIN users :
                toLowerCase(users[i].email) = toLowerCase(Last.body.email)}) = 1

\* the request carried the stored email in another case
C9_Witness ==
    /\ CreateExistingUser
    /\ Last.status = 409
    /\ \A i \in DOMAIN users : users[i].email # Last.body.email

\* The request answered last was a recordPayment, carrying the three fields,
\* for an existing registration whose participantEmail matched no user.
PaymentWithoutUser ==
    /\ Quiescent
    /\ Len(hist) = 1
    /\ Last.op = RecordPaymentOp
    /\ Last.body.transactionId # Undefined
    /\ Last.body.paymentStatus # Undefined
    /\ Last.body.paymentDate # Undefined
    /\ Last.id \in DOMAIN Last.pre.regs
    /\ \A i \in DOMAIN Last.pre.users :
          ~RegexMatch(Last.pre.regs[Last.id].participantEmail, Last.pre.users[i].email)

\* the request is answered as a success, exactly one payment document was
\* inserted, and the users are as they were
SucceedsWithoutUser ==
    /\ Last.status = 200
    /\ Last.id \in DOMAIN regs
    /\ regs[Last.id].confirmationStatus = "confirmed"
    /\ payments = Last.pre.payments
                    (+) SetToBag({PaymentDoc(Last.pre.regs[Last.id], Last.body)})
    /\ users = Last.pre.users

RegisterAnswered ==
    /\ Quiescent
    /\ Len(hist) = 1
    /\ Last.op = RegisterOp
    /\ Last.status = 200

\* C11: a register stores the registration unpaid and pending whatever the
\* body carried, adds exactly 1 to the participant_count of the camp campId
\* names, and answers with the new registration's id and the number of camps
\* the increment modified: 1 when the camp exists, 0 when it does not.
C11_RegisterForcesStatusesAndCounts ==
    RegisterAnswered =>
        LET x == Last.out.registrationId
            c == Last.body.campId
        IN  /\ x \in DOMAIN regs /\ x \notin DOMAIN Last.pre.regs
            /\ regs[x].paymentStatus = "unpaid"
            /\ regs[x].confirmationStatus = "pending"
            /\ IF c \in DOMAIN Last.pre.camps
               THEN /\ Last.out.updatedCount = 1
                    /\ Val(camps[c].participant_count)
                         = Val(Last.pre.camps[c].participant_count) + 1
               ELSE /\ Last.out.updatedCount = 0
                    /\ camps = Last.pre.camps

\* the body claimed paid and confirmed, for an existing camp
C11_Witness ==
    /\ RegisterAnswered
    /\ Last.body.paymentStatus = "paid"
    /\ Last.body.confirmationStatus = "confirmed"
    /\ Last.body.campId \in DOMAIN Last.pre.camps
    /\ Last.out.updatedCount = 1
    /\ regs[Last.out.registrationId].paymentStatus = "unpaid"

\* the registers in flight that have inserted their registration naming camp c
\* and await their increment
RegistersInFlight(c) ==
    {r \in Slots : reqs[r].pc = "updateOne" /\ reqs[r].op = RegisterOp
                     /\ reqs[r].loc.campId = c}

\* C12: with registers running concurrently, the camp's participant_count, 0
\* at the start, is the number of registers naming the camp that have
\* answered; so once all N have answered it is N: no increment is lost.
C12_NoIncrementLost ==
    \A c \in DOMAIN camps :
        /\ Val(camps[c].participant_count) + Cardinality(RegistersInFlight(c))
              = Cardinality({x \in DOMAIN regs : regs[x].campId = c})
        /\ Quiescent =>
              camps[c].participant_count
                  = Num(Cardinality({x \in DOMAIN regs : regs[x].campId = c}))

\* as many registers as the bounds allow have named the camp and answered
C12_Witness ==
    /\ Quiescent
    /\ Cardinality({x \in DOMAIN regs : regs[x].campId = GenCampIds[1]}) = MaxRegs
    /\ camps[GenCampIds[1]].participant_count = Num(MaxRegs)

DeleteCampsOp == "DELETE /camps/:id"
PostCampsOp == "POST /camps"

\* C13: when a camp delete has answered with success, no registration that
\* refers to the deleted camp, in campId or in camp_id, is left.
C13_CampDeleteCascades ==
    ( /\ Quiescent
      /\ Len(hist) = 1
      /\ Last.op = DeleteCampsOp
      /\ Last.status = 200 )
    => \A x \in DOMAIN regs :
          regs[x].campId # Last.id /\ regs[x].camp_id # Last.id

\* The request answered last was a camp create that passed verifyOrganizer.
CampCreateAnswered ==
    /\ Quiescent
    /\ Len(hist) = 1
    /\ Last.op = PostCampsOp
    /\ Last.status # 403

\* title, date or time is empty, or the images list is
EmptyCampField(body) ==
    body.title = "" \/ body.date = "" \/ body.time = "" \/ body.images = <<>>

\* C14: a camp create with an empty title, date, time or images list is
\* answered 400 and writes nothing; any other is answered with success and
\* stores one new camp, with participant_count 0 whatever the body carried.
C14_CampCreateValidates ==
    CampCreateAnswered =>
        IF EmptyCampField(Last.body)
        THEN Last.status = 400 /\ camps = Last.pre.camps
        ELSE /\ Last.status = 200
             /\ Last.out.insertedId \notin DOMAIN Last.pre.camps
             /\ DOMAIN camps = DOMAIN Last.pre.camps \cup {Last.out.insertedId}
             /\ \A c \in DOMAIN Last.pre.camps : camps[c] = Last.pre.camps[c]
             /\ camps[Last.out.insertedId].participant_count = Num(0)
             /\ camps[Last.out.insertedId].title = Last.body.title

\* a camp was stored from a body that carried participant_count 5
C14_Witness ==
    /\ CampCreateAnswered
    /\ Last.status = 200
    /\ Last.body.participant_count = Num(5)
    /\ camps[Last.out.insertedId].participant_count = Num(0)

\* C15: no step of any route modifies or removes a payment document: every
\* document of the payments collection is in it after the step, as often as
\* before.
C15_PaymentsAppendOnly ==
    [][\A d \in BagToSet(payments) : CopiesIn(d, payments') >= CopiesIn(d, payments)]_vars

\* a payment of recordPayment and a payment of POST /payments are both stored
C15_Witness ==
    /\ Quiescent
    /\ \E d \in BagToSet(payments) : d.transactionId = "T1"
    /\ \E d \in BagToSet(payments) : d.transactionId = "T9"
    /\ DOMAIN regs = {}

\* the amount the payment document is to carry: the registration's fee
\* snapshot when it has one, 0 included; else the amount of the request;
\* else 0
AmountDue(registration, body) ==
    IF registration.campFees # NoNumber THEN registration.campFees
    ELSE IF body.amount # NoNumber THEN body.amount
    ELSE Num(0)

\* C16: the payment document a successful recordPayment inserted carries the
\* registration's fee snapshot whenever there is one, a fee of 0 included,
\* else the amount the request supplied, else 0.
C16_AmountIsFeeSnapshot ==
    ( /\ Quiescent
      /\ Len(hist) = 1
      /\ Last.op = RecordPaymentOp
      /\ Last.status = 200 )
    => \E d \in BagToSet(payments) :
          /\ CopiesIn(d, payments) = CopiesIn(d, Last.pre.payments) + 1
          /\ d.amount = AmountDue(Last.pre.regs[Last.id], Last.body)

\* C17: after a successful recordPayment every user whose email is the
\* registration's participantEmail, compared without case, has role
\* participant, whatever the role was before, organizer included.
C17_PromotesMatchingUser ==
    ( /\ Quiescent
      /\ Len(hist) = 1
      /\ Last.op = RecordPaymentOp
      /\ Last.status = 200 )
    => \A i \in DOMAIN Last.pre.users :
          toLowerCase(Last.pre.users[i].email)
              = toLowerCase(Last.pre.regs[Last.id].participantEmail)
          => users[i].role = "participant"

\* the response sent last reports that the operation op threw
Rejected(op) ==
    /\ Quiescent
    /\ Len(hist) = 1
    /\ "rejected" \in DOMAIN Last.out
    /\ Last.out.rejected = op

\* C18: when the role update of a recordPayment fails after the registration
\* update and the payment insert succeeded, the request is still answered as
\* a success, and so not as it is answered when the payment insert fails.
C18_RolePromotionFailureNotFatal ==
    (Rejected("roleUpdate") /\ Last.op = RecordPaymentOp) => Last.status = 200

\* The register answered last had inserted its registration, and its
\* increment rejected or matched no camp.
RegisterIncrementFailed ==
    /\ Quiescent
    /\ Len(hist) = 1
    /\ Last.op = RegisterOp
    /\ ~ObjectIdThrows(Last.body.campId)
    /\ \/ Rejected("updateOne")
       \/ ObjectId(Last.body.campId) \notin DOMAIN Last.pre.camps

\* C19: such a register still answers with a success that carries the new
\* registration's id and reports that no counter was updated.
C19_IncrementFailureInSuccess ==
    RegisterIncrementFailed =>
        /\ Last.status = 200
        /\ Last.out.registrationId \in DOMAIN regs \ DOMAIN Last.pre.regs
        /\ Last.out.updatedCount = 0

\* The delete answered last removed its registration, and the decrement
\* that follows failed.
DecrementFailed ==
    /\ Quiescent
    /\ Len(hist) = 1
    /\ Last.op = DeleteOp
    /\ "logged" \in DOMAIN Last.out

\* C20: such a delete is still answered as a success, the registration is
\* gone, and no decrement was applied afterwards: the camps are as they were.
C20_DecrementFailureNotFatal ==
    DecrementFailed =>
        /\ Last.status = 200
        /\ Last.out.deletedCount = 1
        /\ Last.id \in DOMAIN Last.pre.regs
        /\ Last.id \notin DOMAIN regs
        /\ camps = Last.pre.camps

\* the store rejected the decrement for a camp that counted the registration
C20_Witness ==
    /\ DecrementFailed
    /\ Last.status = 200
    /\ Last.pre.regs[Last.id].campId \in DOMAIN camps
    /\ Val(camps[Last.pre.regs[Last.id].campId].participant_count) = 1
    /\ DOMAIN regs = {}

\* C21: a store failure in any handler is caught and answered: no request
\* is left without a response by a failure that escaped its handler.
C21_EveryFailureAnswered ==
    \A r \in Slots : reqs[r].pc # "unhandledRejection"

UpdateStatusOp == "PATCH /registrations/:id"

\* The request answered last was an updateStatus for a stored registration.
UpdateStatusAnswered ==
    /\ Quiescent
    /\ Len(hist) = 1
    /\ Last.op = UpdateStatusOp
    /\ Last.id \in DOMAIN Last.pre.regs

\* C22: an updateStatus is accepted whatever the registration's current
\* confirmationStatus is, sets it to the value supplied, and changes nothing
\* else: not the registration's other fields, paymentStatus among them, nor
\* the camps, the payments or the users.
C22_UpdateStatusFrame ==
    UpdateStatusAnswered =>
        /\ Last.status = 200
        /\ regs = [Last.pre.regs EXCEPT
                      ![Last.id].confirmationStatus = Last.body.confirmationStatus]
        /\ camps = Last.pre.camps
        /\ payments = Last.pre.payments
        /\ users = Last.pre.users

\* a paid, confirmed registration was taken back to pending
C22_Witness ==
    /\ UpdateStatusAnswered
    /\ Last.pre.regs[Last.id].confirmationStatus = "confirmed"
    /\ Last.pre.regs[Last.id].paymentStatus = "paid"
    /\ Last.body.confirmationStatus = "pending"
    /\ regs[Last.id].confirmationStatus = "pending"
    /\ regs[Last.id].paymentStatus = "paid"
    /\ \E i \in DOMAIN users : users[i].role = "participant"

\* C23: every stored registration has paymentStatus unpaid or paid and
\* confirmationStatus pending, confirmed or cancelled.
C23_StatusesInEnums ==
    \A x \in DOMAIN regs :
        /\ regs[x].paymentStatus \in {"unpaid", "paid"}
        /\ regs[x].confirmationStatus \in {"pending", "confirmed", "cancelled"}

\* C24: a registration that was cancelled when an updateStatus or a
\* recordPayment for it started is still cancelled when the request has
\* answered.
C24_CancelledIsTerminal ==
    ( /\ Quiescent
      /\ Len(hist) = 1
      /\ Last.op \in {UpdateStatusOp, RecordPaymentOp}
      /\ Last.id \in DOMAIN Last.pre.regs
      /\ Last.pre.regs[Last.id].confirmationStatus = "cancelled" )
    => regs[Last.id].confirmationStatus = "cancelled"

\* C25: when a recordPayment re-fetches its registration and there is none,
\* because none ever was or because a concurrent delete removed it after
\* the update step, that step answers 404 and ends the request, inserts no
\* payment document and changes no user.
C25_VanishedRegistrationNotFound ==
    [][\A r \in Slots :
          ( /\ reqs[r].pc = "findOne"
            /\ reqs[r].op = RecordPaymentOp
            /\ ObjectId(reqs[r].id) \notin DOMAIN regs
            /\ reqs'[r] # reqs[r] )
          => /\ reqs'[r] = Idle
             /\ Len(hist') = 1
             /\ hist'[1].op = RecordPaymentOp
             /\ hist'[1].id = reqs[r].id
             /\ hist'[1].status = 404
             /\ payments' = payments
             /\ users' = users]_vars

\* a recordPayment was answered 404 for a registration the store had
\* inserted, while the delete of that registration awaits its decrement
C25_Witness ==
    /\ Len(hist) = 1
    /\ Last.op = RecordPaymentOp
    /\ Last.status = 404
    /\ Last.id \in KnownRegIds
    /\ \E q \in Slots : /\ reqs[q].pc = "updateOne"
                         /\ reqs[q].op = DeleteOp
                         /\ reqs[q].id = Last.id
    /\ payments = EmptyBag
    /\ users[1].role = "organizer"

\* C26: no two user documents carry the same email, however the POST /users
\* requests interleave.
C26_NoDuplicateEmail ==
    \A i, j \in DOMAIN users :
        i # j => users[i].email # users[j].email

\* the deletes of camp c whose deleteOne removed the registration and whose
\* decrement is still to come
DecrementsInFlight(c) ==
    {r \in Slots : reqs[r].pc = "updateOne" /\ reqs[r].op = DeleteOp
                     /\ reqs[r].loc = c}

\* C27: each camp's participant_count is the number of registers that have
\* incremented it less the number of registrations removed by a delete that
\* has gone through its decrement; so concurrent deletes of one registration
\* decrement once, in the request whose deleteOne removed it.
C27_OneDecrementPerRemoval ==
    \A c \in DOMAIN camps :
        Val(camps[c].participant_count) + Cardinality(RegistersInFlight(c))
            = Cardinality(Referencing(c)) + Cardinality(DecrementsInFlight(c))

\* two deletes of one registration have both read it; one has removed it and
\* awaits its decrement, the other has still to run its deleteOne
C27_Witness ==
    \E q, r \in Slots :
        /\ q # r
        /\ reqs[q].pc = "updateOne" /\ reqs[q].op = DeleteOp
        /\ reqs[r].pc = "deleteOne" /\ reqs[r].op = DeleteOp
        /\ reqs[r].id = reqs[q].id
        /\ ObjectId(reqs[r].id) \notin DOMAIN regs

PutCampsOp == "PUT /camps/:id"

\* C28: when a camp update has answered 404 "Camp not found or no changes
\* made", the camps collection is as it was before the request; an id that
\* matches no camp creates none.
C28_NotFoundLeavesCamps ==
    ( /\ Quiescent
      /\ Len(hist) = 1
      /\ Last.op = PutCampsOp
      /\ Last.status = 404 )
    => camps = Last.pre.camps

\* C29: the organizer passes verifyOrganizer in every state that registers
\* and recordPayments, with POST /users, can reach.
C29_OrganizerKeepsAccess == IsOrganizer(EmailO)

\* C30: when a register has answered 500 "Failed to register", the
\* registrations collection is as it was before the request.
C30_FailedRegisterAddsNothing ==
    ( /\ Quiescent
      /\ Len(hist) = 1
      /\ Last.op = RegisterOp
      /\ Last.status = 500 )
    => regs = Last.pre.regs

====
